---- MODULE Spec2Model ----
(***************************************************************************)
(* Table lifecycle of the nftables firewall backend                        *)
(* (daemon/firewall/nftables/tables.go): AddTable, getTable, getTableKey,  *)
(* addInterceptionTables, addSystemTables, nonSystemRules and              *)
(* delSystemTables, run against a model of the kernel's tables, chains and *)
(* rules, of the netlink connection's staged batch and of the sysTables    *)
(* registry; and the launcher of the UI (ui/bin/opensnitch-ui): the single *)
(* instance check, the choice of the listen address and of the port.       *)
(***************************************************************************)
EXTENDS Integers, Sequences, FiniteSets, TLC

\* Bounds of the kernel model: chains and rules present at the same time.
MaxChains == 2
MaxRules == 2

\* Callers of the Nft methods (goroutines).  Main is the only caller of the
\* sequential specification; the concurrent one runs both.
Main == "main"
Other == "other"
Procs == {Main, Other}

\* exprs.NFT_CHAIN_MANGLE, NFT_CHAIN_FILTER, NFT_FAMILY_INET, NFT_FAMILY_IP
NFT_CHAIN_MANGLE == "mangle"
NFT_CHAIN_FILTER == "filter"
NFT_FAMILY_INET == "inet"
NFT_FAMILY_IP == "ip"

\* The (name, family) pairs AddTable is called with: the two tables of the
\* startup routines, and a table that shares only its name with one of them
\* and nothing with the other.
TableArgs == {<<NFT_CHAIN_MANGLE, NFT_FAMILY_INET>>,
              <<NFT_CHAIN_FILTER, NFT_FAMILY_INET>>,
              <<NFT_CHAIN_FILTER, NFT_FAMILY_IP>>}

\* getFamilyCode: the family string to the netlink family code
\* (NFPROTO_INET = 1, NFPROTO_IPV4 = 2; inet is the default).
getFamilyCode(family) ==
    IF family = NFT_FAMILY_IP THEN 2 ELSE 1

\* A kernel table is identified by its name and family code.
KTables == {[Name |-> a[1], Family |-> getFamilyCode(a[2])] : a \in TableArgs}

\* One chain name per table is enough to have chains in every table.
ChainNames == {"output"}
KChains == [Table : KTables, Name : ChainNames]

\* Who added a rule: the daemon ("sys") or another actor ("foreign").
Owners == {"sys", "foreign"}

\* The nil *nftables.Table.
Nil == [Name |-> "", Family |-> 0, ptr |-> 0]

\* tbl := &nftables.Table{Family: famCode, Name: name}; ptr is the identity
\* of the allocation.
NewTable(name, family, ptr) ==
    [Name |-> name, Family |-> getFamilyCode(family), ptr |-> ptr]

\* The kernel table a handle names.
TableOf(tbl) == [Name |-> tbl.Name, Family |-> tbl.Family]

\* getTableKey: fmt.Sprint(name, "-", family); all three operands are
\* strings, so Sprint adds no spaces.
getTableKey(name, family) == name \o "-" \o family

VARIABLES
    kTables,    \* kernel: the tables that exist
    kChains,    \* kernel: chain -> [sys, foreign] numbers of rules it holds
    batch,      \* n.conn: the operations staged and not yet flushed
    sysTables,  \* the registry: key -> table handle
    log,        \* per caller: the keys named in the "error deleting system
                \* table" warnings of its running call
    fn,         \* per caller: the method it is running, or "none"
    pc,         \* per caller: its position in that method
    loc,        \* per caller: the locals of AddTable and of the teardown loop
    addRet,     \* per caller: what AddTable is about to return (pc "return")
    ret,        \* per caller: what a startup routine is about to return
    last,       \* per caller: the teardown iteration it is in
    kept,       \* per caller: the entries whose count was not 0 in this run
    history,    \* the keys earlier teardown steps left registered, kept
                \* only by the specification that switches it on
    cfg,        \* launcher: the settings Config.get() reads
    fsDirs,     \* launcher: the directories that exist on the host
    listener,   \* launcher: the process whose QLocalServer owns app_id
    upc,        \* per UI process: its position in __main__
    argv,       \* per UI process: the command line it was started with
    args,       \* per UI process: the parsed arguments (args.socket changes)
    service,    \* per UI process: whether UIService has been created
    server      \* per UI process: the port added to the gRPC server, and
                \* whether server.start() was called

vars == <<kTables, kChains, batch, sysTables, log, fn, pc, loc, addRet, ret,
          last, kept, history, cfg, fsDirs, listener, upc, argv, args, service, server>>

kernel == <<kTables, kChains>>
frames == <<log, fn, pc, loc, addRet, ret, last, kept>>
daemon == <<kernel, batch, sysTables, frames, history>>
launcher == <<cfg, fsDirs, listener, upc, argv, args, service, server>>

----------------------------------------------------------------------------
\* sysTables: the registry object (Add, Get, Del, List).

Add(reg, key, tbl) ==
    [k \in DOMAIN reg \cup {key} |-> IF k = key THEN tbl ELSE reg[k]]

Get(reg, key) == IF key \in DOMAIN reg THEN reg[key] ELSE Nil

Del(reg, key) == [k \in DOMAIN reg \ {key} |-> reg[k]]

List(reg) == reg

EmptyRegistry == [k \in {} |-> Nil]

\* Nft.getTable
getTable(name, family) == Get(sysTables, getTableKey(name, family))

----------------------------------------------------------------------------
\* The kernel and the connection.

RECURSIVE SetToSeq(_)
SetToSeq(S) ==
    IF S = {} THEN <<>>
    ELSE LET x == CHOOSE y \in S : TRUE IN <<x>> \o SetToSeq(S \ {x})

\* The order in which the kernel dumps chains.
DumpOrder == SetToSeq(KChains)

\* n.conn.ListChains(): every chain of every table and family.
ListChains == SelectSeq(DumpOrder, LAMBDA c : c \in DOMAIN kChains)

\* len(rules) of n.conn.GetRule(c.Table, c)
RulesLen(c) == kChains[c].sys + kChains[c].foreign

RECURSIVE SumRules(_)
SumRules(cs) ==
    IF cs = {} THEN 0
    ELSE LET c == CHOOSE y \in cs : TRUE IN RulesLen(c) + SumRules(cs \ {c})

TotalRules == SumRules(DOMAIN kChains)

\* Applying one staged operation to the kernel state k = [tables, chains].
ApplyOp(k, op) ==
    IF op.op = "add"
    THEN [k EXCEPT !.tables = @ \cup {op.tbl}]
    ELSE [tables |-> k.tables \ {op.tbl},
          chains |-> [c \in {d \in DOMAIN k.chains : d.Table # op.tbl}
                        |-> k.chains[c]]]

RECURSIVE ApplyBatch(_, _)
ApplyBatch(k, ops) ==
    IF ops = <<>> THEN k ELSE ApplyBatch(ApplyOp(k, Head(ops)), Tail(ops))

\* The kernel refuses a batch that deletes a table which does not exist.
RECURSIVE Applicable(_, _)
Applicable(k, ops) ==
    IF ops = <<>> THEN TRUE
    ELSE /\ (Head(ops).op = "del" => Head(ops).tbl \in k.tables)
         /\ Applicable(ApplyOp(k, Head(ops)), Tail(ops))

KernelNow == [tables |-> kTables, chains |-> kChains]

\* n.Commit(): conn.Flush() sends the batch as one transaction.  With
\* nothing staged it succeeds; otherwise it succeeds when the kernel accepts
\* the whole batch (accept is the environment's answer).
CommitOk(accept) ==
    batch = <<>> \/ (accept /\ Applicable(KernelNow, batch))

\* The kernel after Commit: the whole batch applied, or nothing.
KernelAfterCommit(accept) ==
    IF CommitOk(accept) THEN ApplyBatch(KernelNow, batch) ELSE KernelNow

----------------------------------------------------------------------------
\* nonSystemRules

\* tables.go:62: the chains the count leaves out.
SkipChain(tbl, c) ==
    tbl.Name # c.Table.Name /\ tbl.Family # c.Table.Family

\* The loop giving back the running total, not -1, when GetRule fails.
RECURSIVE CountLoop_partial(_, _, _, _)
CountLoop_partial(tbl, cs, ruleErr, t) ==
    IF cs = <<>> THEN t
    ELSE LET c == Head(cs) IN
         IF SkipChain(tbl, c) THEN CountLoop_partial(tbl, Tail(cs), ruleErr, t)
         ELSE IF c \in ruleErr THEN t
         ELSE CountLoop_partial(tbl, Tail(cs), ruleErr, t + RulesLen(c))

\* tables.go:61-70: the loop over the listed chains, t the running total;
\* ruleErr is the set of chains whose GetRule returns an error.
RECURSIVE CountLoop(_, _, _, _)
CountLoop(tbl, cs, ruleErr, t) ==
    IF cs = <<>> THEN t
    ELSE LET c == Head(cs) IN
         IF SkipChain(tbl, c) THEN CountLoop(tbl, Tail(cs), ruleErr, t)
         ELSE IF c \in ruleErr THEN -1
         ELSE CountLoop(tbl, Tail(cs), ruleErr, t + RulesLen(c))

\* tables.go:55-73; listErr says that ListChains returns an error.
nonSystemRules(tbl, listErr, ruleErr) ==
    IF listErr THEN -1 ELSE CountLoop(tbl, ListChains, ruleErr, 0)

\* The test taking the failure value -1 for "no rules".
ShouldSkip_positive(count) == count > 0

\* The test skipping only a failed count.
ShouldSkip_failed(count) == count < 0

\* tables.go:77: the teardown loop leaves the table alone.
ShouldSkip(count) == count # 0

\* The enumeration failures the environment can inject into one count.
RuleErrChoices == {{}} \cup {{c} : c \in DOMAIN kChains}

----------------------------------------------------------------------------
\* The UI launcher (ui/bin/opensnitch-ui): values and pure steps.

\* The launcher processes that may be started on one host.
UIProcs == {"ui1", "ui2"}

\* Python's None and a value that is not None.
None == [some |-> FALSE, val |-> <<>>]
Some(v) == [some |-> TRUE, val |-> v]

\* Address strings, cut into the pieces the launcher looks at:
\* "unix:///tmp/osui.sock" is <<"unix://", "/", "tmp", "/", "osui.sock">>
\* and "" is << >>.
DefaultSocket == <<"unix://", "/", "tmp", "/", "osui.sock">>
RunSocket == <<"unix://", "/", "run", "/", "osui.sock">>
RelSocket == <<"unix://", "osui.sock">>
TcpSocket == <<"[::]:50051">>
EmptyStr == << >>

\* The values of --socket and of the setting Config.DEFAULT_SERVER_ADDR.
SocketArgs == {None, Some(RunSocket), Some(RelSocket), Some(TcpSocket)}
ServerAddrs == {None, Some(EmptyStr), Some(RunSocket), Some(TcpSocket)}

\* auth.Simple, and the values of --socket-auth and of Config.AUTH_TYPE.
auth_Simple == "simple"
SocketAuthArgs == {None, Some(auth_Simple), Some("tls-simple")}
AuthTypes == {None, Some(""), Some("tls-mutual")}

\* The settings files and the hosts the launcher may run with.
Cfgs == [addr : ServerAddrs, auth : AuthTypes]
FsChoices == {{<<"/", "tmp">>}, {<<"/", "tmp">>, <<"/", "run">>}}

\* The working directory of the launcher.
Cwd == <<"/", "home">>

\* addr.startswith("unix://")
startswith_unix(a) == Len(a) > 0 /\ a[1] = "unix://"

\* addr[7:] of an address that starts with "unix://"
strip_unix(a) == Tail(a)

\* os.path.dirname: what stands before the last "/" ("/" itself for a file
\* of the root directory, "" for a name without a directory).
RECURSIVE dirname(_)
dirname(path) ==
    IF path = << >> THEN << >>
    ELSE IF path[Len(path)] = "/"
         THEN IF Len(path) = 1 THEN path ELSE SubSeq(path, 1, Len(path) - 1)
         ELSE dirname(SubSeq(path, 1, Len(path) - 1))

\* os.path.exists of a directory
exists(path) == path \in fsDirs

\* os.path.abspath: a path that is not absolute is joined to the working
\* directory (the paths used here hold no "." or ".." to normalise).
abspath(path) ==
    IF path # << >> /\ path[1] = "/" THEN path
    ELSE IF path = << >> THEN Cwd
    ELSE Cwd \o <<"/">> \o path

\* The choice that never reads the settings.
SelectSocket_default(socket, addr) ==
    IF socket # None THEN socket ELSE Some(DefaultSocket)

\* ui/bin/opensnitch-ui:124-136: args.socket after the choice of the address.
SelectSocket(socket, addr) ==
    IF socket # None THEN socket
    ELSE IF addr # None /\ addr.val # EmptyStr
         THEN IF startswith_unix(addr.val)
              THEN IF ~exists(dirname(strip_unix(addr.val)))
                   THEN Some(DefaultSocket)
                   ELSE addr
              ELSE addr
         ELSE Some(DefaultSocket)

\* ui/bin/opensnitch-ui:167-171
SelectAuthType(socket_auth, cfgAuth) ==
    IF socket_auth # None THEN socket_auth.val
    ELSE IF cfgAuth # None THEN cfgAuth.val
    ELSE auth_Simple

\* The gRPC server before a port is added to it.
NoPort == [port |-> "none", target |-> << >>, tls |-> "none",
           started |-> FALSE]

\* server.add_insecure_port(target)
InsecurePort(target) ==
    [port |-> "insecure", target |-> target, tls |-> "none",
     started |-> FALSE]

\* server.add_secure_port(target, tls_creds)
SecurePort(target, tls_creds) ==
    [port |-> "secure", target |-> target, tls |-> tls_creds,
     started |-> FALSE]

\* raise Exception("Invalid TLS credentials. ...")
Raise == [port |-> "raise", target |-> << >>, tls |-> "none",
          started |-> FALSE]

\* auth.get_tls_credentials: the credentials, or None when the key or the
\* certificate cannot be used (credsOk is the host's answer).
get_tls_credentials(credsOk) == IF credsOk THEN "valid" ELSE "None"

\* The port chosen without TLS when the credentials cannot be used.
AddPort_downgrade(socket, socket_auth, cfgAuth, credsOk) ==
    IF credsOk /\ ~startswith_unix(socket)
                /\ SelectAuthType(socket_auth, cfgAuth) \notin {auth_Simple, ""}
    THEN SecurePort(socket, "valid")
    ELSE InsecurePort(IF startswith_unix(socket)
                      THEN <<"unix:">> \o abspath(strip_unix(socket))
                      ELSE socket)

\* ui/bin/opensnitch-ui:161-187: the port added to the server, or the
\* exception of line 186.
AddPort(socket, socket_auth, cfgAuth, credsOk) ==
    IF startswith_unix(socket)
    THEN InsecurePort(<<"unix:">> \o abspath(strip_unix(socket)))
    ELSE LET auth_type == SelectAuthType(socket_auth, cfgAuth)
         IN IF auth_type = auth_Simple \/ auth_type = ""
            THEN InsecurePort(socket)
            ELSE LET tls_creds == get_tls_credentials(credsOk)
                 IN IF tls_creds = "None" THEN Raise
                    ELSE SecurePort(socket, tls_creds)

ArgvInit == [socket |-> None, socket_auth |-> None]

\* No launcher process is running.
LauncherOff ==
    /\ listener = "none"
    /\ upc = [u \in UIProcs |-> "off"]
    /\ argv = [u \in UIProcs |-> ArgvInit]
    /\ args = [u \in UIProcs |-> ArgvInit]
    /\ service = [u \in UIProcs |-> FALSE]
    /\ server = [u \in UIProcs |-> NoPort]

----------------------------------------------------------------------------
\* Callers' frames.  A caller that is idle holds nothing: its frame is gone.

LocInit == [name |-> "", family |-> "", tbl |-> Nil, idx |-> 0, todo |-> {}]
AddRetInit == [tbl |-> Nil, err |-> FALSE]
RetInit == [err |-> FALSE]
LastInit == [key |-> "", tbl |-> Nil, count |-> 0, listErr |-> FALSE,
             ruleErr |-> {}, staged |-> FALSE, commit |-> "none"]

\* The history of teardown: switched off, it records nothing.
HistoryOff == [on |-> FALSE, retained |-> {}]
HistoryOn == [on |-> TRUE, retained |-> {}]

\* A teardown step left key registered (a count that was not 0, or a failed
\* Commit).
Retain(h, key) ==
    IF h.on THEN [h EXCEPT !.retained = @ \cup {key}] ELSE h

\* The keys no longer registered leave the history.
Forget(h, reg) ==
    [h EXCEPT !.retained = @ \cap DOMAIN reg]

\* The handles somebody still holds.
Held ==
    {sysTables[k] : k \in DOMAIN sysTables}
      \cup {loc[q].tbl : q \in Procs} \cup {addRet[q].tbl : q \in Procs}
      \cup {last[q].tbl : q \in Procs}
      \cup UNION {{e.tbl : e \in kept[q]} : q \in Procs}

\* &nftables.Table{...}: an allocation distinct from every one still held.
\* Handles of different tables differ in their fields, so the identity only
\* has to tell apart the handles of one (name, family).
Alloc(name, family) ==
    LET used == {h.ptr : h \in {g \in Held : /\ g.Name = name
                                              /\ g.Family = getFamilyCode(family)}}
    IN CHOOSE i \in 1..(Cardinality(used) + 1) :
         i \notin used /\ \A j \in 1..(i - 1) : j \in used

\* The daemon before any call: nothing in the kernel, nothing registered.
DaemonOff ==
    /\ kTables = {}
    /\ kChains = [c \in {} |-> [sys |-> 0, foreign |-> 0]]
    /\ batch = <<>>
    /\ sysTables = EmptyRegistry
    /\ log = [p \in Procs |-> {}]
    /\ fn = [p \in Procs |-> "none"]
    /\ pc = [p \in Procs |-> "idle"]
    /\ loc = [p \in Procs |-> LocInit]
    /\ addRet = [p \in Procs |-> AddRetInit]
    /\ ret = [p \in Procs |-> RetInit]
    /\ last = [p \in Procs |-> LastInit]
    /\ kept = [p \in Procs |-> {}]

Init ==
    /\ DaemonOff
    /\ history = HistoryOff
    /\ cfg = [addr |-> None, auth |-> None]
    /\ fsDirs = {<<"/", "tmp">>}
    /\ LauncherOff

\* A caller enters method f at position start; its first AddTable, if any,
\* is for (name, family).
Enter(p, f, start, name, family) ==
    /\ pc[p] = "idle"
    /\ fn' = [fn EXCEPT ![p] = f]
    /\ pc' = [pc EXCEPT ![p] = start]
    /\ loc' = [loc EXCEPT ![p] =
                [LocInit EXCEPT !.name = name, !.family = family, !.idx = 1,
                                !.todo = IF f = "delSystemTables"
                                         THEN DOMAIN List(sysTables) ELSE {}]]
    /\ UNCHANGED <<launcher, history, kernel, batch, sysTables, log, addRet,
                   ret, last, kept>>

\* A caller returns from its outermost method.
Leave(p) ==
    /\ fn' = [fn EXCEPT ![p] = "none"]
    /\ pc' = [pc EXCEPT ![p] = "idle"]
    /\ loc' = [loc EXCEPT ![p] = LocInit]
    /\ addRet' = [addRet EXCEPT ![p] = AddRetInit]
    /\ ret' = [ret EXCEPT ![p] = RetInit]
    /\ last' = [last EXCEPT ![p] = LastInit]
    /\ kept' = [kept EXCEPT ![p] = {}]
    /\ log' = [log EXCEPT ![p] = {}]
    /\ UNCHANGED <<launcher, history, kernel, batch, sysTables>>

----------------------------------------------------------------------------
\* AddTable and the two startup routines.

\* A call of n.AddTable(name, family) from outside this file.
AddTableCall(p, name, family) ==
    Enter(p, "AddTable", "stage", name, family)

\* tables.go:36-37
addInterceptionTablesCall(p) ==
    Enter(p, "addInterceptionTables", "stage", NFT_CHAIN_MANGLE,
          NFT_FAMILY_INET)

\* tables.go:49-50
addSystemTablesCall(p) ==
    Enter(p, "addSystemTables", "stage", NFT_CHAIN_MANGLE, NFT_FAMILY_INET)

\* n.conn.AddTable(tbl): the operation joins the connection's batch.
StageAdd(b, tbl, p) ==
    Append(b, [op |-> "add", tbl |-> TableOf(tbl), by |-> p])

\* tables.go:13-18
AddTableStage(p) ==
    /\ pc[p] = "stage"
    /\ LET tbl == NewTable(loc[p].name, loc[p].family,
                           Alloc(loc[p].name, loc[p].family))
       IN /\ batch' = StageAdd(batch, tbl, p)
          /\ loc' = [loc EXCEPT ![p].tbl = tbl]
    /\ pc' = [pc EXCEPT ![p] = "commit"]
    /\ UNCHANGED <<launcher, history, kernel, sysTables, log, fn, addRet, ret,
                   last, kept>>

\* The registry updated whatever Commit returned.
RegistryAfterAdd_always(ok, reg, key, tbl) == Add(reg, key, tbl)

\* The registry keeping the handle it already has for the key.
RegistryAfterAdd_keep(ok, reg, key, tbl) ==
    IF ok /\ key \notin DOMAIN reg THEN Add(reg, key, tbl) ELSE reg

\* tables.go:20-24: the registry after AddTable's Commit returned ok.
RegistryAfterAdd(ok, reg, key, tbl) ==
    IF ok THEN Add(reg, key, tbl) ELSE reg

\* tables.go:21,25: the handle AddTable returns.
AddTableResult(ok, tbl) == IF ok THEN tbl ELSE Nil

\* tables.go:20-25, up to the return statement.
AddTableCommit(p) ==
    /\ pc[p] = "commit"
    /\ \E accept \in BOOLEAN :
         LET ok == CommitOk(accept)
             k == KernelAfterCommit(accept)
             key == getTableKey(loc[p].name, loc[p].family)
         IN /\ kTables' = k.tables
            /\ kChains' = k.chains
            /\ batch' = <<>>
            /\ sysTables' = RegistryAfterAdd(ok, sysTables, key, loc[p].tbl)
            /\ addRet' = [addRet EXCEPT ![p] =
                            [tbl |-> AddTableResult(ok, loc[p].tbl),
                             err |-> ~ok]]
    /\ pc' = [pc EXCEPT ![p] = "return"]
    /\ UNCHANGED <<launcher, history, log, fn, loc, ret, last, kept>>

\* The routine going on to its second AddTable call whatever the first
\* returned.
CallsSecond_always(f, idx, err) == idx = 1

\* tables.go:37-43 and 50-51: whether the routine makes its second AddTable
\* call after the first returned err.
CallsSecond(f, idx, err) ==
    /\ idx = 1
    /\ f = "addInterceptionTables" => ~err

\* tables.go:38,41,43: the error addInterceptionTables returns;
\* addSystemTables (49-52) has no result and drops AddTable's.
RoutineErr(f, err) ==
    IF f = "addInterceptionTables" THEN err ELSE FALSE

\* AddTable returns: to an outside caller, or into a startup routine, which
\* calls AddTable for filter/inet or reaches its own return.
AddTableReturn(p) ==
    /\ pc[p] = "return"
    /\ IF fn[p] = "AddTable"
       THEN Leave(p)
       ELSE /\ IF CallsSecond(fn[p], loc[p].idx, addRet[p].err)
               THEN /\ loc' = [loc EXCEPT ![p] =
                                 [LocInit EXCEPT !.name = NFT_CHAIN_FILTER,
                                                 !.family = NFT_FAMILY_INET,
                                                 !.idx = 2]]
                    /\ pc' = [pc EXCEPT ![p] = "stage"]
                    /\ ret' = ret
               ELSE /\ loc' = [loc EXCEPT ![p] = LocInit]
                    /\ pc' = [pc EXCEPT ![p] = "exit"]
                    /\ ret' = [ret EXCEPT ![p] =
                                 [err |-> RoutineErr(fn[p], addRet[p].err)]]
            /\ addRet' = [addRet EXCEPT ![p] = AddRetInit]
            /\ UNCHANGED <<launcher, history, kernel, batch, sysTables, log, fn,
                           last, kept>>

\* addInterceptionTables or addSystemTables returns to its caller.
RoutineReturn(p) ==
    /\ pc[p] = "exit"
    /\ Leave(p)

----------------------------------------------------------------------------
\* delSystemTables

\* tables.go:75-76: the loop ranges over sysTables.List().
delSystemTablesCall(p) ==
    Enter(p, "delSystemTables", "loop", "", "")

\* n.conn.DelTable(tbl)
StageDel(b, tbl, p) ==
    Append(b, [op |-> "del", tbl |-> TableOf(tbl), by |-> p])

\* The range ending after its first entry.
RangeRest_stop(todo, k) == {}

\* tables.go:76: the entries the range still has to produce after k.
RangeRest(todo, k) == todo \ {k}

\* tables.go:76-80: one iteration up to its continue or its staged delete.
\* An entry that left the map since the loop began is not produced by range.
DelIter(p) ==
    /\ pc[p] = "loop"
    /\ \E k \in loc[p].todo, listErr \in BOOLEAN, ruleErr \in RuleErrChoices :
         /\ listErr => ruleErr = {}
         /\ loc' = [loc EXCEPT ![p].todo = RangeRest(@, k)]
         /\ IF k \notin DOMAIN sysTables
            THEN UNCHANGED <<batch, pc, last, kept, history>>
            ELSE LET tbl == sysTables[k]
                     count == nonSystemRules(tbl, listErr, ruleErr)
                 IN /\ last' = [last EXCEPT ![p] =
                                  [key |-> k, tbl |-> tbl, count |-> count,
                                   listErr |-> listErr, ruleErr |-> ruleErr,
                                   staged |-> ~ShouldSkip(count),
                                   commit |-> "none"]]
                    /\ kept' = [kept EXCEPT ![p] =
                                  IF count # 0
                                  THEN @ \cup {[key |-> k, tbl |-> tbl]}
                                  ELSE @]
                    /\ IF ShouldSkip(count)
                       THEN /\ batch' = batch
                            /\ pc' = [pc EXCEPT ![p] = "iterdone"]
                            /\ history' = Retain(history, k)
                       ELSE /\ batch' = StageDel(batch, tbl, p)
                            /\ pc' = [pc EXCEPT ![p] = "delcommit"]
                            /\ history' = history
    /\ UNCHANGED <<launcher, kernel, sysTables, log, fn, addRet, ret>>

\* The entry removed whatever Commit returned.
RegistryAfterDel_always(ok, reg, key) == Del(reg, key)

\* The entry kept whatever Commit returned.
RegistryAfterDel_keep(ok, reg, key) == reg

\* tables.go:81-85: the registry after the delete's Commit returned ok.
RegistryAfterDel(ok, reg, key) ==
    IF ok THEN Del(reg, key) ELSE reg

\* tables.go:81-83: the warning of a failed Commit.
LogAfterDel(ok, lg, key) ==
    IF ok THEN lg ELSE lg \cup {key}

\* tables.go:81-85
DelCommit(p) ==
    /\ pc[p] = "delcommit"
    /\ \E accept \in BOOLEAN :
         LET ok == CommitOk(accept)
             k == KernelAfterCommit(accept)
         IN /\ kTables' = k.tables
            /\ kChains' = k.chains
            /\ batch' = <<>>
            /\ sysTables' = RegistryAfterDel(ok, sysTables, last[p].key)
            /\ log' = [log EXCEPT ![p] = LogAfterDel(ok, @, last[p].key)]
            /\ last' = [last EXCEPT ![p].commit = IF ok THEN "ok" ELSE "fail"]
            /\ history' = IF ok THEN history
                           ELSE Retain(history, last[p].key)
    /\ pc' = [pc EXCEPT ![p] = "iterdone"]
    /\ UNCHANGED <<launcher, fn, loc, addRet, ret, kept>>

\* tables.go:76: the loop takes up its next entry.
DelNext(p) ==
    /\ pc[p] = "iterdone"
    /\ pc' = [pc EXCEPT ![p] = "loop"]
    /\ last' = [last EXCEPT ![p] = LastInit]
    /\ history' = Forget(history, sysTables)
    /\ UNCHANGED <<launcher, kernel, batch, sysTables, log, fn, loc, addRet,
                   ret, kept>>

\* tables.go:76,87: the range is exhausted.
DelReturn(p) ==
    /\ pc[p] = "loop"
    /\ loc[p].todo = {}
    /\ Leave(p)

----------------------------------------------------------------------------
\* The rest of the host: other actors, and the daemon's own chain and rule
\* code, change the kernel's tables, chains and rules.

EnvAddTable(t) ==
    /\ t \notin kTables
    /\ kTables' = kTables \cup {t}
    /\ UNCHANGED <<launcher, history, kChains, batch, sysTables, frames>>

EnvAddChain(c) ==
    /\ c.Table \in kTables
    /\ c \notin DOMAIN kChains
    /\ Cardinality(DOMAIN kChains) < MaxChains
    /\ kChains' = [d \in DOMAIN kChains \cup {c} |->
                     IF d = c THEN [sys |-> 0, foreign |-> 0] ELSE kChains[d]]
    /\ UNCHANGED <<launcher, history, kTables, batch, sysTables, frames>>

EnvAddRule(c, o) ==
    /\ c \in DOMAIN kChains
    /\ TotalRules < MaxRules
    /\ kChains' = [kChains EXCEPT ![c][o] = @ + 1]
    /\ UNCHANGED <<launcher, history, kTables, batch, sysTables, frames>>

EnvDelRule(c, o) ==
    /\ c \in DOMAIN kChains
    /\ kChains[c][o] > 0
    /\ kChains' = [kChains EXCEPT ![c][o] = @ - 1]
    /\ UNCHANGED <<launcher, history, kTables, batch, sysTables, frames>>

Env ==
    \/ \E t \in KTables : EnvAddTable(t)
    \/ \E c \in KChains : EnvAddChain(c)
    \/ \E c \in KChains, o \in Owners : EnvAddRule(c, o)
    \/ \E c \in KChains, o \in Owners : EnvDelRule(c, o)

Step(p) ==
    \/ \E a \in TableArgs : AddTableCall(p, a[1], a[2])
    \/ addInterceptionTablesCall(p)
    \/ addSystemTablesCall(p)
    \/ AddTableStage(p)
    \/ AddTableCommit(p)
    \/ AddTableReturn(p)
    \/ RoutineReturn(p)
    \/ delSystemTablesCall(p)
    \/ DelIter(p)
    \/ DelCommit(p)
    \/ DelNext(p)
    \/ DelReturn(p)

\* The methods called one at a time, by one caller.
Next == Step(Main) \/ Env

Spec == Init /\ [][Next]_vars

\* Two callers whose AddTable and delSystemTables calls overlap on the same
\* connection; the kernel is left to them, and AddTable is called for the
\* two tables of the startup routines.
ConcArgs == {<<NFT_CHAIN_MANGLE, NFT_FAMILY_INET>>,
             <<NFT_CHAIN_FILTER, NFT_FAMILY_INET>>}

ConcStep(p) ==
    \/ \E a \in ConcArgs : AddTableCall(p, a[1], a[2])
    \/ AddTableStage(p)
    \/ AddTableCommit(p)
    \/ AddTableReturn(p)
    \/ delSystemTablesCall(p)
    \/ DelIter(p)
    \/ DelCommit(p)
    \/ DelNext(p)
    \/ DelReturn(p)

ConcNext == \E p \in Procs : ConcStep(p)

SpecConc == Init /\ [][ConcNext]_vars

\* Teardown tried again and again: AddTable and delSystemTables called one
\* at a time by one caller, with the history of teardown switched on.  A
\* call that has started runs on to its return.
Run(p) ==
    \/ AddTableStage(p)
    \/ AddTableCommit(p)
    \/ AddTableReturn(p)
    \/ DelIter(p)
    \/ DelCommit(p)
    \/ DelNext(p)
    \/ DelReturn(p)

RetryInit ==
    /\ DaemonOff
    /\ history = HistoryOn
    /\ cfg = [addr |-> None, auth |-> None]
    /\ fsDirs = {<<"/", "tmp">>}
    /\ LauncherOff

RetryNext == ConcStep(Main) \/ Env

SpecRetry == RetryInit /\ [][RetryNext]_vars /\ WF_vars(Run(Main))

\* AddTable called with any strings: a table name and a family string that
\* hold the separator of getTableKey, next to a pair of the startup routines.
\* getFamilyCode takes a family it does not know for inet.
KeyArgs == {<<"filter-out", NFT_FAMILY_INET>>,
            <<NFT_CHAIN_FILTER, "out-inet">>,
            <<NFT_CHAIN_FILTER, NFT_FAMILY_INET>>}

KeysStep(p) ==
    \/ \E a \in KeyArgs : AddTableCall(p, a[1], a[2])
    \/ AddTableStage(p)
    \/ AddTableCommit(p)
    \/ AddTableReturn(p)
    \/ delSystemTablesCall(p)
    \/ DelIter(p)
    \/ DelCommit(p)
    \/ DelNext(p)
    \/ DelReturn(p)

KeysNext == KeysStep(Main)

SpecKeys == Init /\ [][KeysNext]_vars

----------------------------------------------------------------------------
\* The UI launcher: __main__ of ui/bin/opensnitch-ui, one step per block.

\* A launcher process is started with a command line.
UILaunch(u, socket, socket_auth) ==
    /\ upc[u] = "off"
    /\ argv' = [argv EXCEPT ![u] =
                  [socket |-> socket, socket_auth |-> socket_auth]]
    /\ args' = [args EXCEPT ![u] =
                  [socket |-> socket, socket_auth |-> socket_auth]]
    /\ upc' = [upc EXCEPT ![u] = "connect"]
    /\ UNCHANGED <<daemon, cfg, fsDirs, listener, service, server>>

\* ui/bin/opensnitch-ui:107-112: the connection to app_id succeeds when a
\* process listens on it; the exception ends the launcher (198-199).
UIConnect(u) ==
    /\ upc[u] = "connect"
    /\ upc' = [upc EXCEPT ![u] =
                 IF listener # "none" THEN "aborted" ELSE "listen"]
    /\ UNCHANGED <<daemon, cfg, fsDirs, listener, argv, args, service, server>>

\* ui/bin/opensnitch-ui:113-115: removeServer takes the name from whoever
\* holds it, listen gives it to this process.
UIListen(u) ==
    /\ upc[u] = "listen"
    /\ listener' = u
    /\ upc' = [upc EXCEPT ![u] = "address"]
    /\ UNCHANGED <<daemon, cfg, fsDirs, argv, args, service, server>>

\* ui/bin/opensnitch-ui:122-138
UIAddress(u) ==
    /\ upc[u] = "address"
    /\ args' = [args EXCEPT ![u].socket = SelectSocket(@, cfg.addr)]
    /\ upc' = [upc EXCEPT ![u] = "service"]
    /\ UNCHANGED <<daemon, cfg, fsDirs, listener, argv, service, server>>

\* ui/bin/opensnitch-ui:140-159: UIService and the gRPC server are created.
UICreateService(u) ==
    /\ upc[u] = "service"
    /\ service' = [service EXCEPT ![u] = TRUE]
    /\ upc' = [upc EXCEPT ![u] = "port"]
    /\ UNCHANGED <<daemon, cfg, fsDirs, listener, argv, args, server>>

\* ui/bin/opensnitch-ui:161-187; the exception of line 186 ends the launcher.
UIAddPort(u) ==
    /\ upc[u] = "port"
    /\ \E credsOk \in BOOLEAN :
         LET r == AddPort(args[u].socket.val, args[u].socket_auth, cfg.auth,
                          credsOk)
         IN IF r.port = "raise"
            THEN /\ upc' = [upc EXCEPT ![u] = "aborted"]
                 /\ server' = server
            ELSE /\ upc' = [upc EXCEPT ![u] = "start"]
                 /\ server' = [server EXCEPT ![u] = r]
    /\ UNCHANGED <<daemon, cfg, fsDirs, listener, argv, args, service>>

\* ui/bin/opensnitch-ui:193-194: server.start(), then the event loop.
UIStart(u) ==
    /\ upc[u] = "start"
    /\ server' = [server EXCEPT ![u].started = TRUE]
    /\ upc' = [upc EXCEPT ![u] = "running"]
    /\ UNCHANGED <<daemon, cfg, fsDirs, listener, argv, args, service>>

\* The process ends: on_exit (51-54) from the event loop, or the end of the
\* script after an exception.  Its local server, if it still owns app_id,
\* is gone with it.
UIExit(u) ==
    /\ upc[u] \in {"running", "aborted"}
    /\ upc' = [upc EXCEPT ![u] = "off"]
    /\ listener' = IF listener = u THEN "none" ELSE listener
    /\ argv' = [argv EXCEPT ![u] = ArgvInit]
    /\ args' = [args EXCEPT ![u] = ArgvInit]
    /\ service' = [service EXCEPT ![u] = FALSE]
    /\ server' = [server EXCEPT ![u] = NoPort]
    /\ UNCHANGED <<daemon, cfg, fsDirs>>

UIStep(u) ==
    \/ \E s \in SocketArgs, a \in SocketAuthArgs : UILaunch(u, s, a)
    \/ UIConnect(u)
    \/ UIListen(u)
    \/ UIAddress(u)
    \/ UICreateService(u)
    \/ UIAddPort(u)
    \/ UIStart(u)
    \/ UIExit(u)

UINext == \E u \in UIProcs : UIStep(u)

\* The launcher on a host with any of the settings files and directories.
UIInit ==
    /\ DaemonOff
    /\ history = HistoryOff
    /\ cfg \in Cfgs
    /\ fsDirs \in FsChoices
    /\ LauncherOff

SpecUI == UIInit /\ [][UINext]_vars

----------------------------------------------------------------------------
\* Properties.

\* The rules of the chains of the table a handle names.
OwnChains(tbl) == {c \in DOMAIN kChains : c.Table = TableOf(tbl)}

\* The chains nonSystemRules counts for a handle.
CountedChains(tbl) == {c \in DOMAIN kChains : ~SkipChain(tbl, c)}

RECURSIVE SumForeign(_)
SumForeign(cs) ==
    IF cs = {} THEN 0
    ELSE LET c == CHOOSE y \in cs : TRUE
         IN kChains[c].foreign + SumForeign(cs \ {c})

\* Caller p takes the step that counts the rules of a registry entry.
Counts(p) == pc[p] = "loop" /\ last'[p].key # ""

\* Caller p takes the step in which AddTable's Commit returns.
AddCommits(p) == pc[p] = "commit" /\ pc'[p] = "return"

\* Caller p takes the step in which the teardown's Commit returns.
DelCommits(p) == pc[p] = "delcommit" /\ pc'[p] = "iterdone"

\* C1: a table leaves the kernel only in the Commit of a teardown iteration
\* whose count for that table was 0 (never after a nonzero count or -1), and
\* whenever the Commit of a staged delete succeeds the table is gone.
TeardownDeletionRule ==
    [][/\ \A t \in kTables \ kTables' :
            \E p \in Procs : /\ DelCommits(p)
                             /\ last[p].count = 0
                             /\ TableOf(last[p].tbl) = t
       /\ \A p \in Procs :
            (DelCommits(p) /\ last[p].count = 0 /\ last'[p].commit = "ok")
               => TableOf(last[p].tbl) \notin kTables']_vars

\* C1 witness: one run has left a table with a nonzero count alone and has
\* deleted another whose count was 0.
TeardownDeletionRule_witness ==
    \E p \in Procs :
       /\ pc[p] = "iterdone"
       /\ last[p].count = 0
       /\ last[p].commit = "ok"
       /\ TableOf(last[p].tbl) \notin kTables
       /\ \E e \in kept[p] : TableOf(e.tbl) \in kTables

\* C2, as claimed: a successful AddTable for a key the registry already holds
\* returns the handle the registry holds.
AddTableReturnsExistingHandle ==
    [][\A p \in Procs :
         LET key == getTableKey(loc[p].name, loc[p].family)
         IN (AddCommits(p) /\ ~addRet'[p].err /\ key \in DOMAIN sysTables)
               => addRet'[p].tbl = sysTables[key]]_vars

\* C2, amended: a successful AddTable for a key the registry already holds
\* returns a newly allocated handle for the same name and family, which
\* replaces the registry's entry; no registry entry and no kernel table is
\* added.
AddTableTwiceOneTable ==
    [][\A p \in Procs :
         LET key == getTableKey(loc[p].name, loc[p].family)
             new == addRet'[p].tbl
         IN (AddCommits(p) /\ ~addRet'[p].err /\ key \in DOMAIN sysTables)
               => /\ new.Name = sysTables[key].Name
                  /\ new.Family = sysTables[key].Family
                  /\ new # sysTables[key]
                  /\ sysTables'[key] = new
                  /\ DOMAIN sysTables' = DOMAIN sysTables
                  /\ TableOf(new) \in kTables'
                  /\ kTables' \ {TableOf(new)} = kTables \ {TableOf(new)}]_vars

\* C2 witness: AddTable is returning a handle allocated while the registry
\* held another one for the same table, and the registry now holds the new one.
AddTableTwiceOneTable_witness ==
    \E p \in Procs :
       /\ pc[p] = "return"
       /\ ~addRet[p].err
       /\ addRet[p].tbl.ptr > 1
       /\ getTable(loc[p].name, loc[p].family) = addRet[p].tbl
       /\ TableOf(addRet[p].tbl) \in kTables

\* C3: a count that did not fail is the number of rules in the chains of the
\* table with the handle's name and family.
CountsOnlyOwnTableChains ==
    [][\A p \in Procs :
         (Counts(p) /\ last'[p].count # -1)
            => last'[p].count = SumRules(OwnChains(last'[p].tbl))]_vars

\* C4: a count that did not fail is the number of rules of other actors in
\* the chains counted; the daemon's own rules are left out.
CountsOnlyForeignRules ==
    [][\A p \in Procs :
         (Counts(p) /\ last'[p].count # -1)
            => last'[p].count = SumForeign(CountedChains(last'[p].tbl))]_vars

\* C5: a registry entry disappears only in the successful Commit of the
\* delete staged for it; a successful Commit removes the entry, a failed one
\* leaves the registry as it was and logs a warning naming the key.
RegistryRemovedOnlyOnCommit ==
    [][/\ \A k \in DOMAIN sysTables \ DOMAIN sysTables' :
            \E p \in Procs : /\ DelCommits(p)
                             /\ last[p].key = k
                             /\ last[p].staged
                             /\ last'[p].commit = "ok"
       /\ \A p \in Procs :
            DelCommits(p)
               => /\ last'[p].commit \in {"ok", "fail"}
                  /\ last'[p].commit = "ok"
                       => last[p].key \notin DOMAIN sysTables'
                  /\ last'[p].commit = "fail"
                       => /\ sysTables' = sysTables
                          /\ last[p].key \in log'[p]]_vars

\* C5 witness: a delete's Commit has failed; the entry is still registered
\* with its handle and the warning is logged.
RegistryRemovedOnlyOnCommit_witness ==
    \E p \in Procs :
       /\ pc[p] = "iterdone"
       /\ last[p].commit = "fail"
       /\ Get(sysTables, last[p].key) = last[p].tbl
       /\ last[p].key \in log[p]

\* C6: when ListChains fails, or GetRule fails for a chain the count takes
\* in, the count is -1 and the iteration stages nothing and deletes nothing.
EnumerationFailureIsMinusOne ==
    [][\A p \in Procs :
         LET l == last'[p]
         IN (/\ Counts(p)
             /\ \/ l.listErr
                \/ \E c \in CountedChains(l.tbl) : c \in l.ruleErr)
               => /\ l.count = -1
                  /\ ~l.staged
                  /\ pc'[p] = "iterdone"
                  /\ batch' = batch
                  /\ kTables' = kTables
                  /\ sysTables' = sysTables]_vars

\* C6 witness: GetRule failed for one counted chain while another counted
\* chain holds rules; the count is -1 and the table is still there.
EnumerationFailureIsMinusOne_witness ==
    \E p \in Procs :
       /\ pc[p] = "iterdone"
       /\ last[p].count = -1
       /\ ~last[p].listErr
       /\ \E c \in CountedChains(last[p].tbl) : c \in last[p].ruleErr
       /\ \E c \in CountedChains(last[p].tbl) :
            c \notin last[p].ruleErr /\ RulesLen(c) > 0
       /\ Get(sysTables, last[p].key) = last[p].tbl
       /\ TableOf(last[p].tbl) \in kTables

\* C7: a startup routine that returns without an error has registered both
\* mangle/inet and filter/inet.
StartupFailureReported ==
    \A p \in Procs :
       (pc[p] = "exit" /\ ~ret[p].err)
          => /\ getTable(NFT_CHAIN_MANGLE, NFT_FAMILY_INET) # Nil
             /\ getTable(NFT_CHAIN_FILTER, NFT_FAMILY_INET) # Nil

\* C8: when AddTable's Commit fails, AddTable returns nil and an error, the
\* registry and every getTable answer are what they were, and the kernel has
\* no new table.
FailedCreateLeavesNoTrace ==
    [][\A p \in Procs :
         (AddCommits(p) /\ addRet'[p].err)
            => /\ addRet'[p].tbl = Nil
               /\ sysTables' = sysTables
               /\ \A a \in TableArgs :
                    Get(sysTables', getTableKey(a[1], a[2]))
                      = getTable(a[1], a[2])
               /\ kTables' = kTables]_vars

\* C8 witness: AddTable is returning nil and an error for a table that was
\* registered before; getTable still answers with the earlier handle.
FailedCreateLeavesNoTrace_witness ==
    \E p \in Procs :
       /\ pc[p] = "return"
       /\ addRet[p].err
       /\ addRet[p].tbl = Nil
       /\ getTable(loc[p].name, loc[p].family) # Nil
       /\ getTable(loc[p].name, loc[p].family) # loc[p].tbl

\* C9: a caller about to Commit finds in the batch the one operation it
\* staged and nothing else.
CommitSeesOwnStagedOps ==
    \A p \in Procs :
       pc[p] \in {"commit", "delcommit"}
          => Len(batch) = 1 /\ batch[1].by = p

\* C10: an entry whose count was not 0 has no delete staged for it, keeps
\* its kernel table and its registry entry, and getTable for its name and
\* family answers with the same handle, up to the end of the teardown run.
PreservedTableIntact ==
    \A p \in Procs :
       /\ (last[p].key # "" /\ last[p].count # 0) => ~last[p].staged
       /\ \A e \in kept[p] :
            /\ TableOf(e.tbl) \in kTables
            /\ \A i \in 1..Len(batch) :
                 ~(batch[i].op = "del" /\ batch[i].tbl = TableOf(e.tbl))
            /\ Get(sysTables, e.key) = e.tbl
            /\ \A a \in TableArgs :
                 getTableKey(a[1], a[2]) = e.key
                    => getTable(a[1], a[2]) = e.tbl

\* C10 witness: the last entry of a teardown run was counted with as many
\* rules as the kernel may hold; it is still registered with its handle and
\* its table is still in the kernel.
PreservedTableIntact_witness ==
    \E p \in Procs :
       /\ pc[p] = "iterdone"
       /\ loc[p].todo = {}
       /\ last[p].count = MaxRules
       /\ [key |-> last[p].key, tbl |-> last[p].tbl] \in kept[p]
       /\ Get(sysTables, last[p].key) = last[p].tbl
       /\ TableOf(last[p].tbl) \in kTables

\* The socket an address string or a port's target names: a unix path taken
\* from the working directory when it is not absolute, or the string itself.
Endpoint(a) ==
    IF Len(a) > 0 /\ a[1] \in {"unix://", "unix:"}
    THEN [unix |-> TRUE, path |-> abspath(Tail(a))]
    ELSE [unix |-> FALSE, path |-> a]

\* C11, as claimed: the port of the gRPC server is the socket --socket names,
\* and unix:///tmp/osui.sock when --socket was not given.
ListensOnDefaultWithoutOption ==
    \A u \in UIProcs :
       server[u].port # "none"
          => Endpoint(server[u].target)
               = Endpoint(IF argv[u].socket = None THEN DefaultSocket
                          ELSE argv[u].socket.val)

\* C11, amended: the port of the gRPC server is the socket --socket names;
\* without --socket it is the socket of the setting DEFAULT_SERVER_ADDR when
\* that is set and not empty and, for a unix:// address, its directory
\* exists, and unix:///tmp/osui.sock otherwise.
ListensOnOptionOrSetting ==
    \A u \in UIProcs :
       server[u].port # "none"
          => Endpoint(server[u].target)
               = Endpoint(IF argv[u].socket # None THEN argv[u].socket.val
                          ELSE IF cfg.addr = None \/ cfg.addr = Some(EmptyStr)
                               THEN DefaultSocket
                          ELSE IF cfg.addr = Some(RunSocket)
                                  /\ <<"/", "run">> \notin fsDirs
                               THEN DefaultSocket
                          ELSE cfg.addr.val)

\* C11 witness: a launcher started without --socket has started its server
\* on the unix socket of the settings, not on the default one.
ListensOnOptionOrSetting_witness ==
    \E u \in UIProcs :
       /\ argv[u].socket = None
       /\ cfg.addr = Some(RunSocket)
       /\ server[u].started
       /\ server[u].port = "insecure"
       /\ server[u].target = <<"unix:", "/", "run", "/", "osui.sock">>

\* The keys whose AddTable Commit succeeds in this step, and the keys whose
\* delete Commit succeeds in this step.
AddCommitted ==
    {getTableKey(loc[p].name, loc[p].family) :
       p \in {q \in Procs : AddCommits(q) /\ ~addRet'[q].err}}

DelCommitted ==
    {last[p].key : p \in {q \in Procs : DelCommits(q) /\ last'[q].commit = "ok"}}

\* C12: the registry starts empty and every step leaves in it the entries it
\* had, plus the key whose AddTable Commit succeeded in the step, minus the
\* key whose delete Commit succeeded in the step; each entry is a handle for
\* the name and family of its key, an entry added is a table the kernel
\* holds, and getTable answers non-nil for a pair exactly when its key is in
\* the registry.
RegistryHoldsCommittedTables ==
    [][/\ DOMAIN sysTables' = (DOMAIN sysTables \cup AddCommitted) \ DelCommitted
       /\ \A k \in AddCommitted : TableOf(sysTables'[k]) \in kTables'
       /\ \A a \in TableArgs :
            LET k == getTableKey(a[1], a[2])
                t == Get(sysTables', k)
            IN /\ t # Nil <=> k \in DOMAIN sysTables'
               /\ t # Nil => /\ t.Name = a[1]
                             /\ t.Family = getFamilyCode(a[2])]_vars

\* C12 witness: with filter/inet registered, AddTable for mangle/inet is
\* returning an error: mangle/inet is in neither the kernel nor the registry,
\* and getTable answers nil for it and non-nil for filter/inet.
RegistryHoldsCommittedTables_witness ==
    \E p \in Procs :
       /\ pc[p] = "return"
       /\ addRet[p].err
       /\ loc[p].name = NFT_CHAIN_MANGLE
       /\ loc[p].family = NFT_FAMILY_INET
       /\ DOMAIN sysTables = {getTableKey(NFT_CHAIN_FILTER, NFT_FAMILY_INET)}
       /\ getTable(NFT_CHAIN_MANGLE, NFT_FAMILY_INET) = Nil
       /\ getTable(NFT_CHAIN_FILTER, NFT_FAMILY_INET) # Nil
       /\ [Name |-> NFT_CHAIN_MANGLE, Family |-> 1] \notin kTables

\* C13: a key that a teardown step left registered (its count was not 0, or
\* its Commit failed) stays registered until a delete of it is committed; it
\* is among the entries every later delSystemTables call ranges over; the
\* iteration of a later call that counts 0 for it and whose Commit succeeds
\* removes its table and its entry; and if delSystemTables keeps being
\* called and, from some point on, AddTable is no longer called, every count
\* is 0 and every Commit succeeds, then the registry ends up empty for good.
TeardownRetryable ==
    /\ [](\A k \in history.retained :
            \/ k \in DOMAIN sysTables
            \/ \E p \in Procs : /\ pc[p] = "iterdone"
                                /\ last[p].key = k
                                /\ last[p].commit = "ok")
    /\ [][\A p \in Procs :
            /\ (pc[p] = "idle" /\ fn'[p] = "delSystemTables")
                  => history.retained \subseteq loc'[p].todo
            /\ (/\ DelCommits(p)
                /\ last[p].key \in history.retained
                /\ last[p].count = 0
                /\ last'[p].commit = "ok")
                  => /\ last[p].key \notin DOMAIN sysTables'
                     /\ TableOf(last[p].tbl) \notin kTables']_vars
    /\ (/\ []<><<delSystemTablesCall(Main)>>_vars
        /\ <>[][\A p \in Procs : fn'[p] \in {"none", "delSystemTables"}]_vars
        /\ <>[][\A p \in Procs : Counts(p) => last'[p].count = 0]_vars
        /\ <>[][\A p \in Procs : DelCommits(p) => last'[p].commit = "ok"]_vars)
          => <>[](sysTables = EmptyRegistry)

\* C13 witness: a table that an earlier teardown step left registered has now
\* been counted with 0 rules and deleted by a Commit that succeeded.
TeardownRetryable_witness ==
    \E p \in Procs :
       /\ pc[p] = "iterdone"
       /\ last[p].key \in history.retained
       /\ last[p].count = 0
       /\ last[p].commit = "ok"
       /\ last[p].key \notin DOMAIN sysTables
       /\ TableOf(last[p].tbl) \notin kTables

\* C14: a delSystemTables call ranges over the entries registered at its
\* start; each iteration takes one entry out of those still to visit and
\* examines it, whatever happened to the entries before it; the call returns
\* only when none is left, and it does return.  The order does not matter:
\* the committed delete of a table that holds no rules changes, for every
\* entry still to visit, neither its handle nor the count nonSystemRules
\* gives for it.
TeardownVisitsAll ==
    /\ [][\A p \in Procs :
            /\ (pc[p] = "idle" /\ fn'[p] = "delSystemTables")
                  => loc'[p].todo = DOMAIN sysTables
            /\ (fn[p] = "delSystemTables" /\ fn'[p] = "none")
                  => loc[p].todo = {}
            /\ (fn[p] = "delSystemTables" /\ loc'[p].todo # loc[p].todo)
                  => \/ fn'[p] = "none"
                     \/ /\ pc[p] = "loop"
                        /\ \E k \in loc[p].todo :
                             /\ loc'[p].todo = loc[p].todo \ {k}
                             /\ k \in DOMAIN sysTables
                             /\ last'[p].key = k
                             /\ last'[p].tbl = sysTables[k]
            /\ (/\ DelCommits(p)
                /\ last'[p].commit = "ok"
                /\ SumRules(OwnChains(last[p].tbl)) = 0)
                  => \A k \in loc[p].todo :
                       /\ k \in DOMAIN sysTables'
                       /\ sysTables'[k] = sysTables[k]
                       /\ \A e \in RuleErrChoices' :
                            nonSystemRules(sysTables[k], FALSE, e)'
                              = nonSystemRules(sysTables[k], FALSE, e)]_vars
    /\ \A p \in {Main} :
         (fn[p] = "delSystemTables") ~> (fn[p] = "none")

\* C14 witness: in one call over two entries the Commit for the first one
\* failed; the second one was examined all the same and deleted, and the
\* range is exhausted.
TeardownVisitsAll_witness ==
    \E p \in Procs :
       /\ pc[p] = "iterdone"
       /\ loc[p].todo = {}
       /\ log[p] # {}
       /\ last[p].key \notin log[p]
       /\ last[p].commit = "ok"
       /\ log[p] \subseteq DOMAIN sysTables

\* Caller p is in addInterceptionTables.
InInterception(p) == fn[p] = "addInterceptionTables"

\* C15: addInterceptionTables calls AddTable for mangle/inet first; it goes
\* on to filter/inet only after mangle/inet was registered; when the first
\* call fails it returns the error with nothing more staged; when the second
\* fails it returns the error and mangle/inet stays in the kernel and in the
\* registry; it returns nil only with both tables registered.
InterceptionTablesInOrder ==
    [][\A p \in Procs :
         LET mangle == getTable(NFT_CHAIN_MANGLE, NFT_FAMILY_INET)'
             filter == getTable(NFT_CHAIN_FILTER, NFT_FAMILY_INET)'
         IN /\ (pc[p] = "idle" /\ InInterception(p)')
                  => /\ pc'[p] = "stage"
                     /\ loc'[p].name = NFT_CHAIN_MANGLE
                     /\ loc'[p].family = NFT_FAMILY_INET
            /\ (InInterception(p) /\ pc[p] # "stage" /\ pc'[p] = "stage")
                  => /\ pc[p] = "return"
                     /\ loc[p].name = NFT_CHAIN_MANGLE
                     /\ ~addRet[p].err
                     /\ loc'[p].name = NFT_CHAIN_FILTER
                     /\ loc'[p].family = NFT_FAMILY_INET
                     /\ mangle # Nil
            /\ (/\ InInterception(p)
                /\ pc[p] = "return"
                /\ pc'[p] # "return"
                /\ addRet[p].err)
                  => /\ pc'[p] = "exit"
                     /\ ret'[p].err
                     /\ batch' = batch
                     /\ sysTables' = sysTables
                     /\ kTables' = kTables
                     /\ loc[p].name = NFT_CHAIN_FILTER
                          => /\ mangle # Nil
                             /\ TableOf(mangle) \in kTables'
            /\ (InInterception(p) /\ pc'[p] = "exit" /\ ~ret'[p].err)
                  => /\ mangle # Nil
                     /\ filter # Nil]_vars

\* C15 witness: addInterceptionTables is returning an error after its second
\* AddTable failed; mangle/inet is in the kernel and registered, filter/inet
\* is not registered.
InterceptionTablesInOrder_witness ==
    \E p \in Procs :
       /\ InInterception(p)
       /\ pc[p] = "exit"
       /\ ret[p].err
       /\ getTable(NFT_CHAIN_MANGLE, NFT_FAMILY_INET) # Nil
       /\ TableOf(getTable(NFT_CHAIN_MANGLE, NFT_FAMILY_INET)) \in kTables
       /\ getTable(NFT_CHAIN_FILTER, NFT_FAMILY_INET) = Nil

\* C16: a server with a port has an insecure port when its address is a
\* unix:// one or its auth type (--socket-auth, else the setting AUTH_TYPE,
\* else "simple") is "simple" or empty, and otherwise a secure port with
\* valid TLS credentials; a launcher that ended on an exception has added no
\* port and started no server; a started server has a port.
TransportNeverDowngrades ==
    \A u \in UIProcs :
       LET socket == args[u].socket.val
           auth_type == IF argv[u].socket_auth # None
                        THEN argv[u].socket_auth.val
                        ELSE IF cfg.auth # None THEN cfg.auth.val
                        ELSE "simple"
       IN /\ server[u].started => server[u].port \in {"insecure", "secure"}
          /\ upc[u] = "aborted"
                => ~server[u].started /\ server[u].port = "none"
          /\ server[u].port # "none"
                => /\ args[u].socket # None
                   /\ socket # << >>
                   /\ IF socket[1] = "unix://" \/ auth_type \in {"simple", ""}
                      THEN server[u].port = "insecure"
                      ELSE /\ server[u].port = "secure"
                           /\ server[u].tls = "valid"

\* C16 witness: a launcher with a TCP address and the auth type tls-simple
\* got no usable credentials: it ended on the exception after creating its
\* service, with no port added and the server not started.
TransportNeverDowngrades_witness ==
    \E u \in UIProcs :
       /\ upc[u] = "aborted"
       /\ service[u]
       /\ args[u].socket = Some(TcpSocket)
       /\ argv[u].socket_auth = Some("tls-simple")
       /\ server[u].port = "none"
       /\ ~server[u].started

\* C17: at most one launcher process at a time has called server.start(),
\* and a process has created its UIService only while no other process had
\* a started server.
SingleInstance ==
    /\ Cardinality({u \in UIProcs : server[u].started}) <= 1
    /\ \A u \in UIProcs :
         (service[u] /\ ~server[u].started)
            => \A v \in UIProcs \ {u} : ~server[v].started

\* C18: two different (name, family) pairs have different keys, so that an
\* AddTable call for one pair leaves the registry's entry for every other
\* pair as it was, and a teardown iteration for one entry removes no other.
KeysInjective ==
    [][\A p \in Procs :
         /\ AddCommits(p)
               => \A b \in KeyArgs \ {<<loc[p].name, loc[p].family>>} :
                    Get(sysTables', getTableKey(b[1], b[2]))
                      = Get(sysTables, getTableKey(b[1], b[2]))
         /\ DelCommits(p)
               => \A b \in KeyArgs :
                    [Name |-> b[1], Family |-> getFamilyCode(b[2])]
                        # TableOf(last[p].tbl)
                      => Get(sysTables', getTableKey(b[1], b[2]))
                           = Get(sysTables, getTableKey(b[1], b[2]))]_vars

====
